---- MODULE Spec2Model ----
(***************************************************************************)
(* Model of the hitster card generator: the deck paginators                *)
(* (create_cards_pdf in src/src/utils.py, its older copy in                *)
(* src/hitster_card_creator.py, create_pdf_in_memory in src/src/utils.py), *)
(* the year colour mapper (get_year_color), the font loader (load_fonts),  *)
(* the text fitter (get_fitted_text_in_memory), the ring renderer          *)
(* (create_qr_with_neon_rings_in_memory) run alone and by two threads, the *)
(* web front end (src/streamlit_app.py) with its scraper, the code overlay *)
(* of the scan face, the reveal face (create_solution_side_in_memory) and  *)
(* the choice of the record source in generate_hitster_cards.              *)
(*                                                                         *)
(* Lengths are exact multiples of 0.1 mm (cm == 100), so that the A4 sheet *)
(* (210 mm x 297 mm), the 5 cm card and the 0.2 cm gap are integers and    *)
(* the halved margins stay integral.  Ramp positions and colour channels   *)
(* are exact rationals kept as numerator over a stated denominator;        *)
(* binary floating point rounding is not modelled.                         *)
(***************************************************************************)
EXTENDS Integers, Sequences, FiniteSets, TLC

\* ------------------------------------------------------------------ bounds
MaxCards == 22      \* largest deck handed to a paginator run
MaxRuns == 2        \* program runs into the same output folder
MaxPop == 4         \* largest year population given to the colour mapper
NumYears == 4       \* distinct year values the records draw from
MaxWords == 3       \* most words of a title or artist name
MaxRenders == 3     \* scan faces rendered one after another
MaxOtherUses == 3   \* calls of the random module between the renders
MaxUrls == 4        \* most track links pasted into the web front end
NumPixels == 4      \* most pixels of the code region

\* ------------------------------------------------- constants of the program
cm == 100                       \* reportlab.lib.units.cm, in 0.1 mm
A4_width == 2100                \* reportlab.lib.pagesizes.A4[0]
A4_height == 2970               \* reportlab.lib.pagesizes.A4[1]
card_size == 5 * cm
gap_size == (2 * cm) \div 10    \* 0.2 * cm
cards_per_row == 4
cards_per_col == 5
cards_per_page == cards_per_row * cards_per_col
cols == 4
rows == 5
batch == 20                     \* step of range(0, total_cards, 20)

VARIABLES
    entry,              \* the program that runs: "cli", "legacy" or "web"
    pc,                 \* position of the running program
    ink_saving_mode,    \* db['ink_saving_mode']
    run,                \* number of runs started so far
    songs,              \* the records of the current run, as their count
    folder,             \* face files in the output folder
    qr_images,          \* sorted listing of *_qr.png
    solution_images,    \* sorted listing of *_solution.png
    page_idx,           \* loop variable of the paginator
    pages,              \* pages closed by showPage(), in order
    result,             \* what the paginator returned
    all_years,          \* year population given to get_year_color
    gradient,           \* db['color_gradient'], as RGB anchors
    card,               \* cards of the population rendered so far
    colors,             \* get_year_color result per rendered card
    font_files,         \* font paths ImageFont.truetype can load
    font_pc,            \* position inside load_fonts and its caller
    fallback_k,         \* index into fallback_fonts
    loaded,             \* the tuple load_fonts returned
    face_result,        \* outcome of the reveal face render
    text,               \* the string handed to the text fitter
    text_width,         \* its one-line width measured by draw.textbbox
    fitted,             \* what the text fitter returned
    rng,                \* state of the generator of the random module
    ring_pc,            \* per thread: position inside the scan face render
    ring_i,             \* per thread: loop variable i of the ring loop
    ring_acc,           \* per thread: the face so far, its gaps ring by ring
    faces,              \* the ring patterns of the finished scan faces
    other_uses,         \* calls of the random module by other code
    total,              \* len(urls) of the scrape
    fetch_i,            \* loop variable i of the scrape, from 1
    scraped,            \* song['year'] of the records scraped so far
    progress,           \* the fractions passed to progress_bar.progress
    warning,            \* the front end showed the unresolved-year warning
    web_pc,             \* position of the web front end
    code_img,           \* luminance of the resized code image, per pixel
    background_color,   \* db['card_background_color'], as RGB
    under,              \* the card under the code before the paste, per pixel
    overlay,            \* the pasted region, per polarity of the code image
    card_label,         \* db['card_label']
    reveals,            \* the reveal faces rendered so far
    fetch,              \* the --fetch flag of the run
    json_file,          \* songs.json on disk: absent, or who wrote it
    links_file,         \* links.txt exists
    credentials,        \* which of URL, client id and secret are given
    cached,             \* songs.json existed when the program started
    source,             \* the record source the run chose
    src_log,            \* what the run has done so far, in order
    src_pc,             \* position inside the run
    src_run             \* number of program runs started so far

pdfvars == <<entry, pc, ink_saving_mode, run, songs, folder, qr_images,
             solution_images, page_idx, pages, result>>
colvars == <<all_years, gradient, card, colors>>
fontvars == <<font_files, font_pc, fallback_k, loaded, face_result>>
textvars == <<text, text_width, fitted>>
rngvars == <<rng, ring_pc, ring_i, ring_acc, faces, other_uses>>
webvars == <<total, fetch_i, scraped, progress, warning, web_pc>>
scanvars == <<code_img, background_color, under, overlay>>
revealvars == <<card_label, reveals>>
srcvars == <<fetch, json_file, links_file, credentials, cached, source,
             src_log, src_pc, src_run>>
extvars == <<scanvars, revealvars, srcvars>>
vars == <<entry, pc, ink_saving_mode, run, songs, folder, qr_images,
          solution_images, page_idx, pages, result,
          all_years, gradient, card, colors,
          font_files, font_pc, fallback_k, loaded, face_result,
          text, text_width, fitted,
          rng, ring_pc, ring_i, ring_acc, faces, other_uses,
          total, fetch_i, scraped, progress, warning, web_pc,
          code_img, background_color, under, overlay,
          card_label, reveals,
          fetch, json_file, links_file, credentials, cached, source,
          src_log, src_pc, src_run>>

\* the variables outside the paginators and the colour mapper
auxvars == <<fontvars, textvars, rngvars, webvars, extvars>>

\* ------------------------------------------------------------ small helpers
Min(a, b) == IF a < b THEN a ELSE b

RECURSIVE Digits(_)
Digits(n) == IF n < 10 THEN <<n>> ELSE Append(Digits(n \div 10), n % 10)

RECURSIVE Pad3(_)
Pad3(d) == IF Len(d) < 3 THEN Pad3(<<0>> \o d) ELSE d

\* f"{i:03d}"
Format03d(i) == Pad3(Digits(i))

RECURSIVE ParseInt(_)
ParseInt(d) == IF Len(d) = 0 THEN 0
               ELSE 10 * ParseInt(SubSeq(d, 1, Len(d) - 1)) + d[Len(d)]

\* int(re.search(r'(\d+)', x).group()): the first digit run of the name
SortKey(f) == ParseInt(f.digits)

\* sorted(S, key=SortKey) for a set of files with distinct keys
RECURSIVE SortedByKey(_)
SortedByKey(S) ==
    IF S = {} THEN <<>>
    ELSE LET m == CHOOSE f \in S : \A g \in S : SortKey(f) <= SortKey(g)
         IN <<m>> \o SortedByKey(S \ {m})

\* a face file card_{digits}{suffix} and the record it was rendered from
File(i, suffix, r) ==
    [digits |-> Format03d(i), suffix |-> suffix, run |-> r, rec |-> i - 1]

\* img.save(path): a file of the same name is overwritten
WriteFiles(fs, new) ==
    {f \in fs : ~ \E g \in new : g.digits = f.digits /\ g.suffix = f.suffix}
        \cup new

FaceOf(f) == [side |-> IF f.suffix = "_qr.png" THEN "qr" ELSE "solution",
              run |-> f.run, rec |-> f.rec]

\* ------------------------------------------- create_cards_pdf (src/src/utils.py)
total_width == cards_per_row * card_size + (cards_per_row - 1) * gap_size
total_height == cards_per_col * card_size + (cards_per_col - 1) * gap_size
margin_x == (A4_width - total_width) \div 2
margin_y == (A4_height - total_height) \div 2

\* os.listdir filtered by suffix and sorted by the numeric key
ListSorted(fs, suffix) == SortedByKey({f \in fs : f.suffix = suffix})

\* mutant: the page count rounds down
total_pages_floor(n) == n \div cards_per_page


total_pages(n) == (n + cards_per_page - 1) \div cards_per_page

start_card(p) == p * cards_per_page

end_card(p, n) == Min(start_card(p) + cards_per_page, n)

\* front page: fill colour of the sheet
FrontFill(ink) == IF ink THEN "white" ELSE "black"

\* one drawImage of the front-page loop
FrontCell(card_idx, start) ==
    LET idx == card_idx - start
        row == idx \div cards_per_row
        col == idx % cards_per_row
    IN [card |-> card_idx,
        face |-> FaceOf(qr_images[card_idx + 1]),
        row |-> row, col |-> col,
        x |-> margin_x + col * (card_size + gap_size),
        y |-> A4_height - margin_y - (row + 1) * card_size - row * gap_size]

\* mutant: the back page is laid out like the front page
BackCell_unmirrored(card_idx, start) ==
    LET idx == card_idx - start
        row == idx \div cards_per_row
        col == idx % cards_per_row
    IN [card |-> card_idx,
        face |-> FaceOf(solution_images[card_idx + 1]),
        row |-> row, col |-> col,
        x |-> margin_x + col * (card_size + gap_size),
        y |-> A4_height - margin_y - (row + 1) * card_size - row * gap_size]

\* one drawImage of the back-page loop
BackCell(card_idx, start) ==
    LET idx == card_idx - start
        row == idx \div cards_per_row
        col == idx % cards_per_row
        col_mirrored == cards_per_row - 1 - col
    IN [card |-> card_idx,
        face |-> FaceOf(solution_images[card_idx + 1]),
        row |-> row, col |-> col_mirrored,
        x |-> margin_x + col_mirrored * (card_size + gap_size),
        y |-> A4_height - margin_y - (row + 1) * card_size - row * gap_size]

FrontPage(p, ink) ==
    LET s == start_card(p)
        e == end_card(p, Len(qr_images))
    IN [kind |-> "scan", fill |-> FrontFill(ink),
        cells |-> [j \in 1..(e - s) |-> FrontCell(s + j - 1, s)]]

BackPage(p) ==
    LET s == start_card(p)
        e == end_card(p, Len(qr_images))
    IN [kind |-> "reveal", fill |-> "white",
        cells |-> [j \in 1..(e - s) |-> BackCell(s + j - 1, s)]]

\* ------------------------- generate_hitster_cards (src/src/hitster_card_creator.py)
\* Step 2: both faces of every record are rendered and saved under the
\* 1-based, zero-padded index; Step 3 then calls create_cards_pdf.
generate_hitster_cards(n) ==
    /\ entry = "cli"
    /\ pc \in {"idle", "done"}
    /\ run < MaxRuns
    /\ run' = run + 1
    /\ songs' = n
    /\ folder' = WriteFiles(folder,
                    {File(i, "_qr.png", run + 1) : i \in 1..n}
                    \cup {File(i, "_solution.png", run + 1) : i \in 1..n})
    /\ pc' = "pdf"
    /\ pages' = <<>>
    /\ result' = "none"
    /\ qr_images' = <<>>
    /\ solution_images' = <<>>
    /\ page_idx' = 0
    /\ UNCHANGED <<entry, ink_saving_mode>>
    /\ UNCHANGED colvars
    /\ UNCHANGED auxvars

\* create_cards_pdf up to the page loop: the folder is listed and sorted
create_cards_pdf ==
    /\ entry = "cli"
    /\ pc = "pdf"
    /\ qr_images' = ListSorted(folder, "_qr.png")
    /\ solution_images' = ListSorted(folder, "_solution.png")
    /\ page_idx' = 0
    /\ pc' = IF total_pages(Len(qr_images')) > 0 THEN "front" ELSE "save"
    /\ UNCHANGED <<entry, ink_saving_mode, run, songs, folder, pages, result>>
    /\ UNCHANGED colvars
    /\ UNCHANGED auxvars

\* the front page of slice page_idx, closed by showPage()
cards_pdf_front ==
    /\ entry = "cli"
    /\ pc = "front"
    /\ pages' = Append(pages, FrontPage(page_idx, ink_saving_mode))
    /\ pc' = "back"
    /\ UNCHANGED <<entry, ink_saving_mode, run, songs, folder, qr_images,
                   solution_images, page_idx, result>>
    /\ UNCHANGED colvars
    /\ UNCHANGED auxvars

\* the back page of slice page_idx, closed by showPage(); a missing
\* solution file makes solution_images[card_idx] raise IndexError
cards_pdf_back ==
    /\ entry = "cli"
    /\ pc = "back"
    /\ IF end_card(page_idx, Len(qr_images)) > Len(solution_images)
       THEN /\ result' = "IndexError"
            /\ pc' = "done"
            /\ UNCHANGED <<pages, page_idx>>
       ELSE /\ pages' = Append(pages, BackPage(page_idx))
            /\ page_idx' = page_idx + 1
            /\ pc' = IF page_idx + 1 < total_pages(Len(qr_images))
                     THEN "front" ELSE "save"
            /\ UNCHANGED result
    /\ UNCHANGED <<entry, ink_saving_mode, run, songs, folder, qr_images,
                   solution_images>>
    /\ UNCHANGED colvars
    /\ UNCHANGED auxvars

\* c.save()
cards_pdf_save ==
    /\ entry = "cli"
    /\ pc = "save"
    /\ result' = "pdf"
    /\ pc' = "done"
    /\ UNCHANGED <<entry, ink_saving_mode, run, songs, folder, qr_images,
                   solution_images, page_idx, pages>>
    /\ UNCHANGED colvars
    /\ UNCHANGED auxvars

\* ------------------------------ create_cards_pdf (src/hitster_card_creator.py)
\* The older single-file program: same grid, front page always black.
legacy_total_pages(n) == (n + cards_per_page - 1) \div cards_per_page

legacy_end_card(p, n) == Min(p * cards_per_page + cards_per_page, n)

\* mutant: the grid is filled column by column
LegacyFrontCell_column_major(card_idx, start) ==
    LET idx == card_idx - start
        row == idx % cards_per_col
        col == idx \div cards_per_col
    IN [card |-> card_idx,
        face |-> FaceOf(qr_images[card_idx + 1]),
        row |-> row, col |-> col,
        x |-> margin_x + col * (card_size + gap_size),
        y |-> A4_height - margin_y - (row + 1) * card_size - row * gap_size]


LegacyFrontCell(card_idx, start) ==
    LET idx == card_idx - start
        row == idx \div cards_per_row
        col == idx % cards_per_row
    IN [card |-> card_idx,
        face |-> FaceOf(qr_images[card_idx + 1]),
        row |-> row, col |-> col,
        x |-> margin_x + col * (card_size + gap_size),
        y |-> A4_height - margin_y - (row + 1) * card_size - row * gap_size]

LegacyBackCell(card_idx, start) ==
    LET idx == card_idx - start
        row == idx \div cards_per_row
        col == idx % cards_per_row
        col_mirrored == cards_per_row - 1 - col
    IN [card |-> card_idx,
        face |-> FaceOf(solution_images[card_idx + 1]),
        row |-> row, col |-> col_mirrored,
        x |-> margin_x + col_mirrored * (card_size + gap_size),
        y |-> A4_height - margin_y - (row + 1) * card_size - row * gap_size]

LegacyFrontPage(p) ==
    LET s == p * cards_per_page
        e == legacy_end_card(p, Len(qr_images))
    IN [kind |-> "scan", fill |-> "black",
        cells |-> [j \in 1..(e - s) |-> LegacyFrontCell(s + j - 1, s)]]

LegacyBackPage(p) ==
    LET s == p * cards_per_page
        e == legacy_end_card(p, Len(qr_images))
    IN [kind |-> "reveal", fill |-> "white",
        cells |-> [j \in 1..(e - s) |-> LegacyBackCell(s + j - 1, s)]]

\* generate_hitster_cards of the older program, card generation step
legacy_generate_hitster_cards(n) ==
    /\ entry = "legacy"
    /\ pc \in {"idle", "done"}
    /\ run < MaxRuns
    /\ run' = run + 1
    /\ songs' = n
    /\ folder' = WriteFiles(folder,
                    {File(i, "_qr.png", run + 1) : i \in 1..n}
                    \cup {File(i, "_solution.png", run + 1) : i \in 1..n})
    /\ pc' = "pdf"
    /\ pages' = <<>>
    /\ result' = "none"
    /\ qr_images' = <<>>
    /\ solution_images' = <<>>
    /\ page_idx' = 0
    /\ UNCHANGED <<entry, ink_saving_mode>>
    /\ UNCHANGED colvars
    /\ UNCHANGED auxvars

legacy_create_cards_pdf ==
    /\ entry = "legacy"
    /\ pc = "pdf"
    /\ qr_images' = ListSorted(folder, "_qr.png")
    /\ solution_images' = ListSorted(folder, "_solution.png")
    /\ page_idx' = 0
    /\ pc' = IF legacy_total_pages(Len(qr_images')) > 0 THEN "front" ELSE "save"
    /\ UNCHANGED <<entry, ink_saving_mode, run, songs, folder, pages, result>>
    /\ UNCHANGED colvars
    /\ UNCHANGED auxvars

legacy_front ==
    /\ entry = "legacy"
    /\ pc = "front"
    /\ pages' = Append(pages, LegacyFrontPage(page_idx))
    /\ pc' = "back"
    /\ UNCHANGED <<entry, ink_saving_mode, run, songs, folder, qr_images,
                   solution_images, page_idx, result>>
    /\ UNCHANGED colvars
    /\ UNCHANGED auxvars

legacy_back ==
    /\ entry = "legacy"
    /\ pc = "back"
    /\ IF legacy_end_card(page_idx, Len(qr_images)) > Len(solution_images)
       THEN /\ result' = "IndexError"
            /\ pc' = "done"
            /\ UNCHANGED <<pages, page_idx>>
       ELSE /\ pages' = Append(pages, LegacyBackPage(page_idx))
            /\ page_idx' = page_idx + 1
            /\ pc' = IF page_idx + 1 < legacy_total_pages(Len(qr_images))
                     THEN "front" ELSE "save"
            /\ UNCHANGED result
    /\ UNCHANGED <<entry, ink_saving_mode, run, songs, folder, qr_images,
                   solution_images>>
    /\ UNCHANGED colvars
    /\ UNCHANGED auxvars

legacy_save ==
    /\ entry = "legacy"
    /\ pc = "save"
    /\ result' = "pdf"
    /\ pc' = "done"
    /\ UNCHANGED <<entry, ink_saving_mode, run, songs, folder, qr_images,
                   solution_images, page_idx, pages>>
    /\ UNCHANGED colvars
    /\ UNCHANGED auxvars

\* --------------------------------------- create_pdf_in_memory (src/src/utils.py)
web_margin_x == (A4_width - cols * card_size) \div 2
web_margin_y == (A4_height - rows * card_size) \div 2

\* mutant: every batch is filled up to a whole grid
batch_songs_padded(i, total_cards) ==
    [j \in 1..batch |-> i + j - 1]

\* songs[i:i+20], as the 0-based indices of the records in the batch
batch_songs(i, total_cards) ==
    [j \in 1..(Min(i + batch, total_cards) - i) |-> i + j - 1]

\* the faces are rendered in memory from the record itself
WebFrontCell(idx, song, r) ==
    LET col == idx % cols
        row == idx \div cols
    IN [card |-> song,
        face |-> [side |-> "qr", run |-> r, rec |-> song],
        row |-> row, col |-> col,
        x |-> web_margin_x + col * card_size,
        y |-> A4_height - web_margin_y - (row + 1) * card_size]

\* mutant: the mirrored column is taken modulo the row length
WebBackCell_wrapped(idx, song, r) ==
    LET orig_col == idx % cols
        mirrored_col == (cols - orig_col) % cols
        row == idx \div cols
    IN [card |-> song,
        face |-> [side |-> "solution", run |-> r, rec |-> song],
        row |-> row, col |-> mirrored_col,
        x |-> web_margin_x + mirrored_col * card_size,
        y |-> A4_height - web_margin_y - (row + 1) * card_size]


WebBackCell(idx, song, r) ==
    LET orig_col == idx % cols
        mirrored_col == (cols - 1) - orig_col
        row == idx \div cols
    IN [card |-> song,
        face |-> [side |-> "solution", run |-> r, rec |-> song],
        row |-> row, col |-> mirrored_col,
        x |-> web_margin_x + mirrored_col * card_size,
        y |-> A4_height - web_margin_y - (row + 1) * card_size]

\* no rectangle is drawn before the cards: the sheet keeps no fill
WebFrontPage(i, total_cards, r) ==
    LET b == batch_songs(i, total_cards)
    IN [kind |-> "scan", fill |-> "none",
        cells |-> [j \in 1..Len(b) |-> WebFrontCell(j - 1, b[j], r)]]

WebBackPage(i, total_cards, r) ==
    LET b == batch_songs(i, total_cards)
    IN [kind |-> "reveal", fill |-> "none",
        cells |-> [j \in 1..Len(b) |-> WebBackCell(j - 1, b[j], r)]]

\* "Create My PDF" with n scraped records: create_pdf_in_memory(songs);
\* an empty list returns None before any canvas exists
create_pdf_in_memory(n) ==
    /\ entry = "web"
    /\ pc \in {"idle", "done"}
    /\ run < MaxRuns
    /\ run' = run + 1
    /\ songs' = n
    /\ pages' = <<>>
    /\ page_idx' = 0
    /\ IF n = 0
       THEN /\ result' = "None"
            /\ pc' = "done"
       ELSE /\ result' = "none"
            /\ pc' = "front"
    /\ UNCHANGED <<entry, ink_saving_mode, folder, qr_images, solution_images>>
    /\ UNCHANGED colvars
    /\ UNCHANGED auxvars

\* front page of the batch starting at record page_idx
pdf_in_memory_front ==
    /\ entry = "web"
    /\ pc = "front"
    /\ pages' = Append(pages, WebFrontPage(page_idx, songs, run))
    /\ pc' = "back"
    /\ UNCHANGED <<entry, ink_saving_mode, run, songs, folder, qr_images,
                   solution_images, page_idx, result>>
    /\ UNCHANGED colvars
    /\ UNCHANGED auxvars

\* back page of the same batch; the loop variable advances by 20
pdf_in_memory_back ==
    /\ entry = "web"
    /\ pc = "back"
    /\ pages' = Append(pages, WebBackPage(page_idx, songs, run))
    /\ page_idx' = page_idx + batch
    /\ pc' = IF page_idx + batch < songs THEN "front" ELSE "save"
    /\ UNCHANGED <<entry, ink_saving_mode, run, songs, folder, qr_images,
                   solution_images, result>>
    /\ UNCHANGED colvars
    /\ UNCHANGED auxvars

\* c.save(); buffer.getvalue()
pdf_in_memory_save ==
    /\ entry = "web"
    /\ pc = "save"
    /\ result' = "pdf"
    /\ pc' = "done"
    /\ UNCHANGED <<entry, ink_saving_mode, run, songs, folder, qr_images,
                   solution_images, page_idx, pages>>
    /\ UNCHANGED colvars
    /\ UNCHANGED auxvars

\* ------------------------------------------------------------ specification
\* colour-mapper variables are parked while a paginator runs
ColorIdle ==
    /\ all_years = <<>>
    /\ gradient = <<>>
    /\ card = 0
    /\ colors = <<>>

FontIdle ==
    /\ font_files = {}
    /\ font_pc = "idle"
    /\ fallback_k = 0
    /\ loaded = <<>>
    /\ face_result = "none"

\* the text fitter has not been called
NotFitted == [out |-> <<>>, divided |-> FALSE, error |-> "not called"]

TextIdle ==
    /\ text = <<>>
    /\ text_width = 0
    /\ fitted = NotFitted

Threads == {1, 2}

\* a scan face before its first ring: the generator state it started from
\* and no gaps yet
NoFace == [before |-> 0, rings |-> <<>>, drawn |-> <<>>]

RingIdle ==
    /\ rng = 0
    /\ ring_pc = [t \in Threads |-> "idle"]
    /\ ring_i = [t \in Threads |-> 0]
    /\ ring_acc = [t \in Threads |-> NoFace]
    /\ faces = <<>>
    /\ other_uses = 0

WebIdle ==
    /\ total = 0
    /\ fetch_i = 0
    /\ scraped = <<>>
    /\ progress = <<>>
    /\ warning = FALSE
    /\ web_pc = "idle"

\* no code image has been pasted
NotPasted == [mask |-> {}, module_color |-> <<>>, region |-> <<>>]

ScanIdle ==
    /\ code_img = <<>>
    /\ background_color = <<0, 0, 0>>
    /\ under = <<>>
    /\ overlay = [p \in {"given", "inverted"} |-> NotPasted]

\* no label is configured: card_label is None
NoLabel == [set |-> FALSE, text |-> ""]

RevealIdle ==
    /\ card_label = NoLabel
    /\ reveals = <<>>

SourceIdle ==
    /\ fetch = FALSE
    /\ json_file = "absent"
    /\ links_file = FALSE
    /\ credentials = {}
    /\ cached = FALSE
    /\ source = "none"
    /\ src_log = <<>>
    /\ src_pc = "idle"
    /\ src_run = 0

ExtIdle == ScanIdle /\ RevealIdle /\ SourceIdle

AuxIdle == FontIdle /\ TextIdle /\ RingIdle /\ WebIdle /\ ExtIdle

\* no paginator runs
PdfIdle ==
    /\ pc = "idle"
    /\ ink_saving_mode = FALSE
    /\ run = 0
    /\ songs = 0
    /\ folder = {}
    /\ qr_images = <<>>
    /\ solution_images = <<>>
    /\ page_idx = 0
    /\ pages = <<>>
    /\ result = "none"

Init ==
    /\ entry \in {"cli", "legacy", "web"}
    /\ pc = "idle"
    /\ ink_saving_mode \in (IF entry = "legacy" THEN {FALSE} ELSE BOOLEAN)
    /\ run = 0
    /\ songs = 0
    /\ folder = {}
    /\ qr_images = <<>>
    /\ solution_images = <<>>
    /\ page_idx = 0
    /\ pages = <<>>
    /\ result = "none"
    /\ ColorIdle
    /\ AuxIdle

Next ==
    \/ \E n \in 0..MaxCards : generate_hitster_cards(n)
    \/ create_cards_pdf
    \/ cards_pdf_front
    \/ cards_pdf_back
    \/ cards_pdf_save
    \/ \E n \in 0..MaxCards : legacy_generate_hitster_cards(n)
    \/ legacy_create_cards_pdf
    \/ legacy_front
    \/ legacy_back
    \/ legacy_save
    \/ \E n \in 0..MaxCards : create_pdf_in_memory(n)
    \/ pdf_in_memory_front
    \/ pdf_in_memory_back
    \/ pdf_in_memory_save

Spec == Init /\ [][Next]_vars

\* ------------------------------------------------- get_year_color (src/src/utils.py)
\* COLOR_GRADIENT after mcolors.hex2color, channels in 1/255
COLOR_GRADIENT ==
    << <<112, 48, 160>>,     \* #7030A0 purple (oldest)
       <<227, 28, 121>>,     \* #E31C79 pink
       <<255, 107, 157>>,    \* #FF6B9D light pink
       <<255, 165, 0>>,      \* #FFA500 orange
       <<255, 215, 0>>,      \* #FFD700 gold
       <<135, 206, 235>>,    \* #87CEEB sky blue
       <<65, 105, 225>> >>   \* #4169E1 royal blue (newest)

\* year values of the records
Years == {1990 + 10 * k : k \in 0..(NumYears - 1)}

\* sorted(all_years)
RECURSIVE Insert(_, _)
Insert(s, y) == IF Len(s) = 0 THEN <<y>>
                ELSE IF y < s[1] THEN <<y>> \o s
                ELSE <<s[1]>> \o Insert(Tail(s), y)

RECURSIVE sorted(_)
sorted(s) == IF Len(s) = 0 THEN <<>>
             ELSE Insert(sorted(SubSeq(s, 1, Len(s) - 1)), s[Len(s)])

\* mutant: the comparison is inverted
RECURSIVE count_below_inverted(_, _)
count_below_inverted(sorted_years, year) ==
    IF Len(sorted_years) = 0 THEN 0
    ELSE (IF sorted_years[1] > year THEN 1 ELSE 0)
         + count_below_inverted(Tail(sorted_years), year)

\* sum(1 for y in sorted_years if y < year)
RECURSIVE count_below(_, _)
count_below(sorted_years, year) ==
    IF Len(sorted_years) = 0 THEN 0
    ELSE (IF sorted_years[1] < year THEN 1 ELSE 0)
         + count_below(Tail(sorted_years), year)

\* mutant: only the queried instance is counted
count_equal_self(sorted_years, year) ==
    IF \E j \in 1..Len(sorted_years) : sorted_years[j] = year THEN 1 ELSE 0

\* sum(1 for y in sorted_years if y == year)
RECURSIVE count_equal(_, _)
count_equal(sorted_years, year) ==
    IF Len(sorted_years) = 0 THEN 0
    ELSE (IF sorted_years[1] = year THEN 1 ELSE 0)
         + count_equal(Tail(sorted_years), year)

\* mutant: lenient rank, the whole tied run counts
percentile_num_lenient(below, equal) == 2 * (below + equal)

\* mutant: strict rank, the tied run does not count
percentile_num_strict(below, equal) == 2 * below

\* (count_below + count_equal / 2) / len(sorted_years), as the numerator
\* over the denominator 2 * len(sorted_years)
percentile_num(below, equal) == 2 * below + equal

\* one channel of the returned colour, as the numerator over den (in 1/255):
\* the anchor itself when idx is integral, else low + (high - low) * frac
Channel_swapped(ramp, idx_low, idx_high, inum, den, ch) ==
    IF idx_low = idx_high
    THEN ramp[idx_low + 1][ch] * den
    ELSE ramp[idx_high + 1][ch] * den
         + (ramp[idx_low + 1][ch] - ramp[idx_high + 1][ch])
           * (inum - idx_low * den)
Channel(ramp, idx_low, idx_high, inum, den, ch) ==
    IF idx_low = idx_high
    THEN ramp[idx_low + 1][ch] * den
    ELSE ramp[idx_low + 1][ch] * den
         + (ramp[idx_high + 1][ch] - ramp[idx_low + 1][ch])
           * (inum - idx_low * den)

\* mutant: the percentile is scaled by the number of anchors
get_year_color_full_scale(year, years, ramp) ==
    LET sorted_years == sorted(years)
        below == count_below(sorted_years, year)
        equal == count_equal(sorted_years, year)
        den == 2 * Len(sorted_years)
        pnum == percentile_num(below, equal)
        n_colors == Len(ramp)
        inum == pnum * n_colors
        idx_low == inum \div den
        idx_high == (inum + den - 1) \div den
    IN [year |-> year, pnum |-> pnum, inum |-> inum, den |-> den,
        idx_low |-> idx_low, idx_high |-> idx_high,
        rgb |-> <<0, 0, 0>>]
get_year_color(year, years, ramp) ==
    LET sorted_years == sorted(years)
        below == count_below(sorted_years, year)
        equal == count_equal(sorted_years, year)
        den == 2 * Len(sorted_years)
        pnum == percentile_num(below, equal)
        n_colors == Len(ramp)
        inum == pnum * (n_colors - 1)
        idx_low == inum \div den                \* int(np.floor(idx))
        idx_high == (inum + den - 1) \div den   \* int(np.ceil(idx))
    IN [year |-> year, pnum |-> pnum, inum |-> inum, den |-> den,
        idx_low |-> idx_low, idx_high |-> idx_high,
        rgb |-> [ch \in 1..3 |->
                    Channel(ramp, idx_low, idx_high, inum, den, ch)]]

\* the reveal face of the next record is rendered: its colour is computed
\* from the record's year and the years of the whole deck
create_solution_side ==
    /\ card < Len(all_years)
    /\ colors' = Append(colors,
                    get_year_color(all_years[card + 1], all_years, gradient))
    /\ card' = card + 1
    /\ UNCHANGED <<all_years, gradient>>
    /\ UNCHANGED pdfvars
    /\ UNCHANGED auxvars

\* populations of 1..MaxPop records, ramps of 2..7 anchors
Populations == UNION {[1..n -> Years] : n \in 1..MaxPop}

Ramps == {SubSeq(COLOR_GRADIENT, 1, l) : l \in 2..Len(COLOR_GRADIENT)}

ColorInit ==
    /\ entry = "render"
    /\ pc = "idle"
    /\ ink_saving_mode = FALSE
    /\ run = 0
    /\ songs = 0
    /\ folder = {}
    /\ qr_images = <<>>
    /\ solution_images = <<>>
    /\ page_idx = 0
    /\ pages = <<>>
    /\ result = "none"
    /\ all_years \in Populations
    /\ gradient \in Ramps
    /\ card = 0
    /\ colors = <<>>
    /\ AuxIdle

ColorNext == create_solution_side

SpecColor == ColorInit /\ [][ColorNext]_vars

\* =================================================================== claims
\* the number of cards the paginator was given
DeckSize == IF entry = "web" THEN songs ELSE Len(qr_images)

\* ceil(n / (rows * cols))
Slices(n) == IF n % (rows * cols) = 0 THEN n \div (rows * cols)
             ELSE n \div (rows * cols) + 1

\* the cards of slice k of a deck of n cards, 0-based
SliceCards(k, n) ==
    {i \in 0..(n - 1) : i \div (rows * cols) = k}

CardsOn(page) == {page.cells[q].card : q \in 1..Len(page.cells)}

RecsOn(page) == {<<page.cells[q].face.run, page.cells[q].face.rec>> :
                    q \in 1..Len(page.cells)}

SidesOn(page) == {page.cells[q].face.side : q \in 1..Len(page.cells)}

ScanPages == {j \in 1..Len(pages) : j % 2 = 1}

RevealPages == {j \in 1..Len(pages) : j % 2 = 0}

\* C1: the document is scan(0), reveal(0), ..., scan(K-1), reveal(K-1) with
\* K = ceil(N / cards_per_page): pages alternate scan/reveal, each reveal
\* page directly follows the scan page of its slice and holds the same
\* cards, and the finished document has exactly 2*K pages.
C1_PageSequence ==
    /\ \A j \in ScanPages :
          /\ pages[j].kind = "scan"
          /\ SidesOn(pages[j]) = {"qr"}
          /\ CardsOn(pages[j]) = SliceCards((j - 1) \div 2, DeckSize)
    /\ \A j \in RevealPages :
          /\ pages[j].kind = "reveal"
          /\ SidesOn(pages[j]) = {"solution"}
          /\ CardsOn(pages[j]) = CardsOn(pages[j - 1])
          /\ RecsOn(pages[j]) = RecsOn(pages[j - 1])
    /\ pc = "back" => Len(pages) % 2 = 1
    /\ pc \in {"front", "save"} => Len(pages) % 2 = 0
    /\ (pc = "done" /\ run > 0) => Len(pages) = 2 * Slices(DeckSize)

\* a deck of 21 cards has been paginated into 4 pages
C1_Witness ==
    /\ pc = "done"
    /\ result = "pdf"
    /\ DeckSize = 21
    /\ Len(pages) = 4
    /\ Len(pages[3].cells) = 1

\* C2: for every card, the reveal cell has the vertical position of the
\* scan cell and its horizontal extent is the scan cell's mirrored about
\* the vertical centre line of the sheet:
\* x_reveal = sheet_width - x_scan - card_size.
C2_MirroredExtent ==
    \A j \in RevealPages :
        \A a \in 1..Len(pages[j - 1].cells) :
            \E b \in 1..Len(pages[j].cells) :
                /\ pages[j].cells[b].card = pages[j - 1].cells[a].card
                /\ pages[j].cells[b].y = pages[j - 1].cells[a].y
                /\ pages[j].cells[b].x
                     = A4_width - pages[j - 1].cells[a].x - card_size

\* a reveal page whose first card sits in the rightmost column
C2_Witness ==
    /\ Len(pages) >= 2
    /\ Len(pages[2].cells) >= 2
    /\ pages[2].cells[1].x > pages[1].cells[1].x
    /\ pages[2].cells[1].x + card_size <= A4_width

\* C3: the card at (row, col) of the scan page sits at the same row and at
\* column cols-1-col of the reveal page (0->3, 1->2, 2->1, 3->0), and no two
\* cards of a slice share a reveal cell.
C3_MirroredColumn ==
    \A j \in RevealPages :
        /\ Len(pages[j].cells) = Len(pages[j - 1].cells)
        /\ \A q \in 1..Len(pages[j].cells) :
              /\ pages[j].cells[q].card = pages[j - 1].cells[q].card
              /\ pages[j].cells[q].row = pages[j - 1].cells[q].row
              /\ pages[j].cells[q].col = 4 - 1 - pages[j - 1].cells[q].col
              /\ pages[j].cells[q].col \in 0..3
        /\ \A q, r \in 1..Len(pages[j].cells) :
              q # r => <<pages[j].cells[q].row, pages[j].cells[q].col>>
                         # <<pages[j].cells[r].row, pages[j].cells[r].col>>

\* a reveal page whose first row holds the cards in columns 3, 2, 1, 0
C3_Witness ==
    /\ Len(pages) >= 2
    /\ Len(pages[2].cells) >= 4
    /\ \A q \in 1..4 : /\ pages[1].cells[q].col = q - 1
                       /\ pages[2].cells[q].col = 4 - q

\* C4: the scan page and the reveal page of slice k each hold exactly
\* min(cards_per_page, N - k*cards_per_page) filled cells; a 2-card deck
\* gives 2 pages of 2 cells each.
C4_FilledCells ==
    /\ \A j \in 1..Len(pages) :
          LET k == (j - 1) \div 2
              rest == DeckSize - k * (rows * cols)
          IN /\ rest > 0
             /\ Len(pages[j].cells)
                  = (IF rest < rows * cols THEN rest ELSE rows * cols)
    /\ (pc = "done" /\ run > 0 /\ DeckSize = 2) =>
          /\ Len(pages) = 2
          /\ Len(pages[1].cells) = 2
          /\ Len(pages[2].cells) = 2

\* a short final slice after a full one, both pages emitted
C4_Witness ==
    /\ pc = "done"
    /\ Len(pages) = 4
    /\ Len(pages[1].cells) = 20
    /\ Len(pages[3].cells) = 2
    /\ Len(pages[4].cells) = 2

\* C5: card i is drawn on the scan page of slice i div cards_per_page at
\* row (i mod cards_per_page) div cols and column (i mod cards_per_page)
\* mod cols, rows top to bottom and columns left to right; in the
\* finished document every card of the deck appears exactly once on a scan
\* page and exactly once on a reveal page.
C5_RecordOrder ==
    /\ \A j \in ScanPages :
          \A q \in 1..Len(pages[j].cells) :
              LET c == pages[j].cells[q]
              IN /\ c.card \div (rows * cols) = (j - 1) \div 2
                 /\ c.card % (rows * cols) = q - 1
                 /\ c.face.rec = c.card
                 /\ c.row = (c.card % (rows * cols)) \div cols
                 /\ c.col = (c.card % (rows * cols)) % cols
                 /\ c.row < rows
                 /\ \A r \in 1..Len(pages[j].cells) :
                       LET d == pages[j].cells[r]
                       IN /\ d.col > c.col => d.x >= c.x + card_size
                          /\ d.row > c.row => d.y + card_size <= c.y
                          /\ d.col = c.col => d.x = c.x
                          /\ d.row = c.row => d.y = c.y
    /\ (pc = "done" /\ run > 0) =>
          \A i \in 0..(DeckSize - 1) :
              /\ Cardinality({<<j, q>> \in ScanPages \X (1..(rows * cols)) :
                    /\ q <= Len(pages[j].cells)
                    /\ pages[j].cells[q].card = i}) = 1
              /\ Cardinality({<<j, q>> \in RevealPages \X (1..(rows * cols)) :
                    /\ q <= Len(pages[j].cells)
                    /\ pages[j].cells[q].face.rec = i}) = 1

\* card 21 sits on the second scan page at row 0, column 1, and card 7 on
\* the first at row 1, column 3
C5_Witness ==
    /\ pc = "done"
    /\ DeckSize >= 22
    /\ Len(pages) >= 4
    /\ pages[3].cells[2].card = 21
    /\ pages[3].cells[2].row = 0
    /\ pages[3].cells[2].col = 1
    /\ pages[1].cells[8].card = 7
    /\ pages[1].cells[8].row = 1
    /\ pages[1].cells[8].col = 3

\* C6: for an empty record list pagination ends without an error and
\* yields a document with zero pages.
C6_EmptyDeckDocument ==
    (pc = "done" /\ run > 0 /\ DeckSize = 0) =>
        /\ result = "pdf"
        /\ Len(pages) = 0

\* ------------------------------------------------------ colour mapper claims
Rendered == 1..card

PopSize == Len(all_years)

\* values of the population below / equal to y, counted on the population
Below(y) == Cardinality({j \in 1..PopSize : all_years[j] < y})

Equal(y) == Cardinality({j \in 1..PopSize : all_years[j] = y})

MaxYear == CHOOSE y \in Years :
               /\ Equal(y) > 0
               /\ \A j \in 1..PopSize : all_years[j] <= y

MinYear == CHOOSE y \in Years :
               /\ Equal(y) > 0
               /\ \A j \in 1..PopSize : all_years[j] >= y

Anchor(k, den) == [ch \in 1..3 |-> gradient[k][ch] * den]

\* C7: the percentile of a year is (count of values < year + half the
\* count of values == year) / population size; every instance of a
\* duplicated year gets the same percentile, and in the population
\* {1990, 1990, 1990, 2020} the year 1990 gets 0.375.
C7_MidRankPercentile ==
    /\ \A i \in Rendered :
          colors[i].pnum * (2 * PopSize)
            = (2 * Below(all_years[i]) + Equal(all_years[i])) * colors[i].den
    /\ \A i, j \in Rendered :
          all_years[i] = all_years[j] =>
              colors[i].pnum * colors[j].den = colors[j].pnum * colors[i].den
    /\ \A i \in Rendered :
          (PopSize = 4 /\ Equal(1990) = 3 /\ Equal(2020) = 1
              /\ all_years[i] = 1990)
            => 8 * colors[i].pnum = 3 * colors[i].den

\* all cards of <<1990, 2020, 1990, 1990>> rendered, 1990 at 3/8
C7_Witness ==
    /\ all_years = <<1990, 2020, 1990, 1990>>
    /\ card = 4
    /\ 8 * colors[1].pnum = 3 * colors[1].den
    /\ 8 * colors[4].pnum = 3 * colors[4].den

\* C8 as stated: the newest year gets the last ramp colour and the oldest
\* year the first ramp colour.
C8_ExtremesGetEndColours ==
    \A i \in Rendered :
        /\ all_years[i] = MaxYear =>
              colors[i].rgb = Anchor(Len(gradient), colors[i].den)
        /\ all_years[i] = MinYear =>
              colors[i].rgb = Anchor(1, colors[i].den)

\* C8 amended: the newest year sits at ramp position
\* (len-1) * (1 - c/(2n)), c its multiplicity, strictly below the last
\* anchor, and the oldest at (len-1) * c/(2n), strictly above the first;
\* no other card of the deck lies beyond them.  With the 7-colour ramp and
\* {2000, 2010, 2020}, 2020 gets the 6th anchor and 2000 the 2nd; in
\* {1990, 2020} the 2020 card sits at position 4.5.
C8_ExtremesInsideRamp ==
    /\ \A i \in Rendered :
          /\ all_years[i] = MaxYear =>
                /\ colors[i].inum * (2 * PopSize)
                     = (Len(gradient) - 1) * (2 * PopSize - Equal(MaxYear))
                         * colors[i].den
                /\ colors[i].inum < (Len(gradient) - 1) * colors[i].den
                /\ \A j \in Rendered : colors[j].inum * colors[i].den
                                         <= colors[i].inum * colors[j].den
          /\ all_years[i] = MinYear =>
                /\ colors[i].inum * (2 * PopSize)
                     = (Len(gradient) - 1) * Equal(MinYear) * colors[i].den
                /\ colors[i].inum > 0
                /\ \A j \in Rendered : colors[j].inum * colors[i].den
                                         >= colors[i].inum * colors[j].den
    /\ \A i \in Rendered :
          (Len(gradient) = 7 /\ PopSize = 3 /\ Equal(2000) = 1
              /\ Equal(2010) = 1 /\ Equal(2020) = 1) =>
              /\ all_years[i] = 2020 =>
                    colors[i].rgb = Anchor(6, colors[i].den)
              /\ all_years[i] = 2000 =>
                    colors[i].rgb = Anchor(2, colors[i].den)
    /\ \A i \in Rendered :
          (Len(gradient) = 7 /\ PopSize = 2 /\ Equal(1990) = 1
              /\ Equal(2020) = 1 /\ all_years[i] = 2020) =>
              2 * colors[i].inum = 9 * colors[i].den

\* {2000, 2010, 2020} rendered on the 7-colour ramp: 2020 is sky blue
C8_Witness ==
    /\ all_years = <<2000, 2010, 2020>>
    /\ Len(gradient) = 7
    /\ card = 3
    /\ colors[3].rgb = Anchor(6, colors[3].den)
    /\ colors[1].rgb = Anchor(2, colors[1].den)

\* C9: for two years y1 <= y2 of a deck the ramp position of y1 is <= that
\* of y2, and equal years get equal colours.
C9_Monotonic ==
    \A i, j \in Rendered :
        /\ all_years[i] <= all_years[j] =>
              colors[i].inum * colors[j].den <= colors[j].inum * colors[i].den
        /\ all_years[i] = all_years[j] =>
              /\ colors[i].rgb = colors[j].rgb
              /\ colors[i].idx_low = colors[j].idx_low
              /\ colors[i].idx_high = colors[j].idx_high

\* a later year rendered before an earlier one, and a duplicated year
C9_Witness ==
    /\ card = 4
    /\ all_years[1] > all_years[2]
    /\ all_years[2] = all_years[4]
    /\ all_years[3] > all_years[1]
    /\ colors[2].inum < colors[1].inum
    /\ colors[1].inum < colors[3].inum
    /\ colors[2].rgb = colors[4].rgb

\* C10: for a population of size 1 the percentile is 0.5 and the colour is
\* the one at ramp position (len(ramp)-1)/2, whatever the year: the 4th
\* anchor of the 7-colour ramp, the middle anchor of any odd ramp, the
\* mean of the two middle anchors of an even ramp.
C10_SingleCardMidpoint ==
    (PopSize = 1 /\ card = 1) =>
        LET c == colors[1]
            L == Len(gradient)
        IN /\ 2 * c.pnum = c.den
           /\ 2 * c.inum = (L - 1) * c.den
           /\ L = 7 => /\ c.rgb = Anchor(4, c.den)
                       /\ c.idx_low = 3
                       /\ c.idx_high = 3
           /\ L % 2 = 1 => c.rgb = Anchor((L - 1) \div 2 + 1, c.den)
           /\ L % 2 = 0 =>
                 \A ch \in 1..3 :
                     2 * c.rgb[ch]
                       = (gradient[L \div 2][ch] + gradient[L \div 2 + 1][ch])
                           * c.den

\* the single card of the deck {2020} is orange (#FFA500)
C10_Witness ==
    /\ all_years = <<2020>>
    /\ Len(gradient) = 7
    /\ card = 1
    /\ colors[1].den = 2
    /\ colors[1].rgb = <<510, 330, 0>>

\* ------------------------------------------------------ load_fonts (src/src/utils.py)
\* db['fonts_dict']: year, artist, song
fonts_dict == <<"Montserrat-Bold.ttf", "Montserrat-SemiBold.ttf",
                "Montserrat-MediumItalic.ttf">>

\* fallback_fonts: (bold_path, regular_path, italic_path) per platform
fallback_fonts ==
    << <<"DejaVuSans-Bold.ttf", "DejaVuSans.ttf", "DejaVuSans-Oblique.ttf">>,
       <<"Helvetica.ttc", "Helvetica.ttc", "Helvetica.ttc">>,
       <<"arialbd.ttf", "arial.ttf", "ariali.ttf">> >>

FontPaths ==
    {fonts_dict[k] : k \in 1..3}
        \cup {fallback_fonts[j][k] : j \in 1..3, k \in 1..3}

\* the four truetype() calls of one try block succeed
LoadsAll(paths, files) == \A k \in 1..Len(paths) : paths[k] \in files

\* the try block on db['fonts_dict']: year, artist, song, label (artist)
load_fonts_configured ==
    /\ font_pc = "configured"
    /\ IF LoadsAll(fonts_dict, font_files)
       THEN /\ loaded' = <<fonts_dict[1], fonts_dict[2], fonts_dict[3],
                           fonts_dict[2]>>
            /\ font_pc' = "unpack"
            /\ UNCHANGED fallback_k
       ELSE /\ font_pc' = "fallback"
            /\ fallback_k' = 1
            /\ UNCHANGED loaded
    /\ UNCHANGED <<font_files, face_result>>
    /\ UNCHANGED <<pdfvars, colvars, textvars, rngvars, webvars,
                   extvars>>

\* one round of the loop over fallback_fonts
load_fonts_fallback ==
    /\ font_pc = "fallback"
    /\ fallback_k <= Len(fallback_fonts)
    /\ LET set == fallback_fonts[fallback_k]
       IN IF LoadsAll(set, font_files)
          THEN /\ loaded' = <<set[1], set[2], set[3], set[2]>>
               /\ font_pc' = "unpack"
               /\ UNCHANGED fallback_k
          ELSE /\ fallback_k' = fallback_k + 1
               /\ font_pc' = IF fallback_k + 1 > Len(fallback_fonts)
                             THEN "default" ELSE "fallback"
               /\ UNCHANGED loaded
    /\ UNCHANGED <<font_files, face_result>>
    /\ UNCHANGED <<pdfvars, colvars, textvars, rngvars, webvars,
                   extvars>>

\* last resort: three default fonts are returned
load_fonts_default ==
    /\ font_pc = "default"
    /\ loaded' = <<"default", "default", "default">>
    /\ font_pc' = "unpack"
    /\ UNCHANGED <<font_files, fallback_k, face_result>>
    /\ UNCHANGED <<pdfvars, colvars, textvars, rngvars, webvars,
                   extvars>>

\* create_solution_side_in_memory:
\*   font_year, font_artist, font_song, font_label = load_fonts()
\* and the drawing that follows
unpack_fonts ==
    /\ font_pc = "unpack"
    /\ face_result' = IF Len(loaded) = 4 THEN "ok" ELSE "ValueError"
    /\ font_pc' = "done"
    /\ UNCHANGED <<font_files, fallback_k, loaded>>
    /\ UNCHANGED <<pdfvars, colvars, textvars, rngvars, webvars,
                   extvars>>

\* a reveal face is rendered on a machine with some of the fonts installed
FontInit ==
    /\ entry = "render"
    /\ PdfIdle
    /\ ExtIdle
    /\ ColorIdle
    /\ TextIdle
    /\ RingIdle
    /\ WebIdle
    /\ font_files \in SUBSET FontPaths
    /\ font_pc = "configured"
    /\ fallback_k = 0
    /\ loaded = <<>>
    /\ face_result = "none"

FontNext ==
    \/ load_fonts_configured
    \/ load_fonts_fallback
    \/ load_fonts_default
    \/ unpack_fonts

SpecFonts == FontInit /\ [][FontNext]_vars

\* the font sets in the order they are tried
FontSets == <<fonts_dict>> \o fallback_fonts

Complete(j) == \A k \in 1..3 : FontSets[j][k] \in font_files

\* C11: font loading never aborts a render: the configured fonts, then the
\* Linux, macOS and Windows sets are tried in this order and the first set
\* that loads completely is used; if none loads the built-in default font
\* is used and the reveal face is still rendered without error.
C11_FontFallbackNeverAborts ==
    font_pc = "done" =>
        /\ face_result = "ok"
        /\ \A j \in 1..4 :
              (Complete(j) /\ \A h \in 1..(j - 1) : ~ Complete(h))
                => <<loaded[1], loaded[2], loaded[3]>> = FontSets[j]
        /\ (\A j \in 1..4 : ~ Complete(j)) => loaded[1] = "default"

\* ------------------------------------------------------------ text fitter
\* get_fitted_text_in_memory (src/src/utils.py) and get_fitted_text
\* (src/hitster_card_creator.py) are the same code.  A string is a sequence
\* of characters; "x" stands for any printing character, " " for a blank.
size == 2000                    \* db['card_size'], in pixels
margin == 150
max_width == size - 2 * margin

Max(a, b) == IF a > b THEN a ELSE b

Blank(chunk) == \A i \in 1..Len(chunk) : chunk[i] = " "

\* length of the run of like characters that s starts with
run_length(s) ==
    LET other == {i \in 1..Len(s) : (s[i] = " ") # (s[1] = " ")}
    IN IF other = {} THEN Len(s)
       ELSE (CHOOSE i \in other : \A j \in other : i <= j) - 1

\* TextWrapper._split: maximal runs of blanks and of printing characters
RECURSIVE split(_)
split(s) ==
    IF s = <<>> THEN <<>>
    ELSE <<SubSeq(s, 1, run_length(s))>>
            \o split(SubSeq(s, run_length(s) + 1, Len(s)))

\* ''.join(cur_line)
RECURSIVE join_chunks(_)
join_chunks(cs) == IF cs = <<>> THEN <<>> ELSE cs[1] \o join_chunks(Tail(cs))

\* the inner while loop of _wrap_chunks: chunks are taken while they fit
RECURSIVE fill_line(_, _, _, _)
fill_line(chunks, width, cur_line, cur_len) ==
    IF chunks # <<>> /\ cur_len + Len(chunks[1]) <= width
    THEN fill_line(Tail(chunks), width, Append(cur_line, chunks[1]),
                   cur_len + Len(chunks[1]))
    ELSE [cur_line |-> cur_line, cur_len |-> cur_len, chunks |-> chunks]

\* TextWrapper._handle_long_word with break_long_words: the head of the
\* chunk that does not fit any line fills the rest of the current line
handle_long_word(st, width) ==
    LET space_left == IF width < 1 THEN 1 ELSE width - st.cur_len
        chunk == st.chunks[1]
    IN [cur_line |-> Append(st.cur_line, SubSeq(chunk, 1, space_left)),
        cur_len |-> st.cur_len + space_left,
        chunks |-> <<SubSeq(chunk, space_left + 1, Len(chunk))>>
                      \o Tail(st.chunks)]

\* TextWrapper._wrap_chunks with drop_whitespace, no indent, no max_lines
RECURSIVE wrap_chunks(_, _, _)
wrap_chunks(chunks, width, lines) ==
    IF chunks = <<>> THEN lines
    ELSE LET c0 == IF Blank(chunks[1]) /\ lines # <<>>
                   THEN Tail(chunks) ELSE chunks
             filled == fill_line(c0, width, <<>>, 0)
             broken == IF filled.chunks # <<>>
                          /\ Len(filled.chunks[1]) > width
                       THEN handle_long_word(filled, width) ELSE filled
             cur == IF broken.cur_line # <<>>
                       /\ Blank(broken.cur_line[Len(broken.cur_line)])
                    THEN SubSeq(broken.cur_line, 1, Len(broken.cur_line) - 1)
                    ELSE broken.cur_line
         IN wrap_chunks(broken.chunks, width,
                        IF cur # <<>> THEN Append(lines, join_chunks(cur))
                        ELSE lines)

\* textwrap.wrap(text, width=width)
wrap(s, width) == wrap_chunks(split(s), width, <<>>)

\* '\n'.join(lines)
RECURSIVE join_lines(_)
join_lines(lines) ==
    IF lines = <<>> THEN <<>>
    ELSE IF Len(lines) = 1 THEN lines[1]
    ELSE lines[1] \o <<"\n">> \o join_lines(Tail(lines))

\* int(max_width / avg_char_width * 0.85), avg_char_width = width / len(s)
chars_per_line_unscaled(s, width, limit) ==
    (limit * Len(s)) \div width
chars_per_line(s, width, limit) ==
    (limit * Len(s) * 85) \div (width * 100)

\* get_fitted_text_in_memory(text, font, max_width), the font given by the
\* width it measures
get_fitted_text_strict(s, width, limit) ==
    IF width < limit
    THEN [out |-> s, divided |-> FALSE, error |-> "none"]
    ELSE IF Len(s) = 0
    THEN [out |-> <<>>, divided |-> TRUE, error |-> "ZeroDivisionError"]
    ELSE [out |-> join_lines(wrap(s, Max(chars_per_line(s, width, limit),
                                         10))),
          divided |-> TRUE, error |-> "none"]
get_fitted_text(s, width, limit) ==
    IF width <= limit
    THEN [out |-> s, divided |-> FALSE, error |-> "none"]
    ELSE IF Len(s) = 0
    THEN [out |-> <<>>, divided |-> TRUE, error |-> "ZeroDivisionError"]
    ELSE [out |-> join_lines(wrap(s, Max(chars_per_line(s, width, limit),
                                         10))),
          divided |-> TRUE, error |-> "none"]

\* song_text = get_fitted_text_in_memory(song_name, font_song, max_width)
fit_text ==
    /\ fitted = NotFitted
    /\ fitted' = get_fitted_text(text, text_width, max_width)
    /\ UNCHANGED <<text, text_width>>
    /\ UNCHANGED <<pdfvars, colvars, fontvars, rngvars, webvars,
                   extvars>>

\* titles and names: words of these lengths joined by single blanks
WordLens == {1, 5, 11, 66}
GlyphWidths == {30, 100, 200, 400}

Word(n) == [i \in 1..n |-> "x"]

RECURSIVE Texts(_)
Texts(k) ==
    IF k = 0 THEN {<<>>}
    ELSE IF k = 1 THEN {Word(n) : n \in WordLens}
    ELSE Texts(k - 1)
            \cup {t \o <<" ">> \o Word(n) :
                    t \in Texts(k - 1) \ {<<>>}, n \in WordLens}

TextInit ==
    /\ entry = "render"
    /\ PdfIdle
    /\ ExtIdle
    /\ ColorIdle
    /\ FontIdle
    /\ RingIdle
    /\ WebIdle
    /\ text \in Texts(MaxWords) \cup {<<>>}
    /\ \E glyph \in GlyphWidths : text_width = Len(text) * glyph
    /\ fitted = NotFitted

TextNext == fit_text

SpecText == TextInit /\ [][TextNext]_vars

\* the lines of a fitted string: the pieces between its "\n"
Breaks(s) == {i \in 1..Len(s) : s[i] = "\n"}
LineCount(s) == Cardinality(Breaks(s)) + 1
LineStarts(s) == {1} \cup {i + 1 : i \in Breaks(s)}
LineLen(s, a) ==
    LET later == {i \in Breaks(s) : i >= a}
    IN IF later = {} THEN Len(s) + 1 - a
       ELSE (CHOOSE i \in later : \A j \in later : i <= j) - a

\* the printing characters of a string, in order
Printing(s) == SelectSeq(s, LAMBDA c : c = "x")

\* max(floor(max_width / (measured width / len(text)) * 0.85), 10)
Budget == Max((max_width * Len(text) * 85) \div (text_width * 100), 10)

\* C12: a text measured wider than max_width is word-wrapped to the budget
\* max(floor(max_width / (measured_width / len(text)) * 0.85), 10): no line
\* of the result is longer than the budget, the printing characters are
\* kept in order, and a text longer than the budget (a 200 character text,
\* say) comes back with at least one line break.
C12_WrapsToBudget ==
    (fitted # NotFitted /\ text_width > max_width) =>
        /\ fitted.error = "none"
        /\ \A a \in LineStarts(fitted.out) : LineLen(fitted.out, a) <= Budget
        /\ Printing(fitted.out) = Printing(text)
        /\ Len(text) > Budget => LineCount(fitted.out) >= 2

C12_Witness ==
    /\ fitted # NotFitted
    /\ Len(text) = 200
    /\ text_width > max_width
    /\ LineCount(fitted.out) >= 5
    /\ \A a \in LineStarts(fitted.out) : LineLen(fitted.out, a) <= Budget

\* C13: a text measured no wider than max_width is returned unchanged, no
\* line break added and no character altered; for the empty text in
\* particular the division by the text length is never reached.
C13_FittingTextUnchanged ==
    (fitted # NotFitted /\ text_width <= max_width) =>
        /\ fitted.out = text
        /\ fitted.error = "none"
        /\ ~ fitted.divided

C13_Witness ==
    /\ fitted # NotFitted
    /\ text = <<>>
    /\ fitted.out = <<>>
    /\ fitted.error = "none"
    /\ ~ fitted.divided

\* ------------------------------------------------------------- neon rings
\* create_qr_with_neon_rings_in_memory (src/src/utils.py) and
\* create_qr_with_neon_rings (src/hitster_card_creator.py) draw the rings
\* with the generator of the random module, which the whole process
\* shares.  The generator is modelled as a deterministic function of its
\* state: a linear congruential step stands for the Mersenne twister.
neon_colors ==
    << <<255, 0, 100>>, <<0, 200, 255>>, <<255, 255, 0>>, <<0, 255, 120>> >>

\* len(db['neon_colors'] * 2); the radius 950 - 50 * i stays positive
NumRings == 2 * Len(neon_colors)

\* random.seed(a)
seed(a) == a % 65537

\* one step of the generator
next_state(s) == (s * 75 + 74) % 65537

RECURSIVE advance(_, _)
advance(s, n) == IF n = 0 THEN s ELSE advance(next_state(s), n - 1)

\* the value random.randint(a, b) returns on its n-th call from state s
randint(a, b, s, n) == a + (advance(s, n) % (b - a + 1))

\* one round of the ring loop: num_gaps, then gap_start and gap_length of
\* every gap
draw_ring(s) ==
    LET num_gaps == randint(1, 3, s, 1)
        s1 == advance(s, 1)
    IN [gaps |-> [g \in 1..num_gaps |->
                    [gap_start |-> randint(0, 360, s1, 2 * g - 1),
                     gap_length |-> randint(20, 60, s1, 2 * g)]],
        rng |-> advance(s1, 2 * num_gaps)]

\* the degrees of the circle that a gap covers
Sector(g) == {(g.gap_start + d) % 360 : d \in 0..(g.gap_length - 1)}

\* the two draw.arc calls of one round of the gap loop, on the set of
\* degrees of the ring that show the background colour: the whole ring
\* is drawn in the ring colour, then the gap in the background colour
full_arc(cut) == {}
gap_arc(cut, g) == cut \cup Sector(g)

RECURSIVE paint_gaps(_, _, _)
paint_gaps(gaps, k, cut) ==
    IF k > Len(gaps) THEN cut
    ELSE paint_gaps(gaps, k + 1, gap_arc(full_arc(cut), gaps[k]))

\* ring i as it is left on the card: radius = max_radius - i * 50 with
\* max_radius = size // 2 - 50, its colour, and the degrees left in the
\* background colour
ring_drawn(i, gaps) ==
    [radius |-> (size \div 2 - 50) - i * 50,
     color |-> (neon_colors \o neon_colors)[i + 1],
     cut |-> paint_gaps(gaps, 1, {})]

drawn_rings(rings) ==
    [i \in 1..Len(rings) |-> ring_drawn(i - 1, rings[i])]

\* n rounds of the ring loop from state s
RECURSIVE draw_rings(_, _)
draw_rings(s, n) ==
    IF n = 0 THEN [rings |-> <<>>, rng |-> s]
    ELSE LET r == draw_ring(s)
             rest == draw_rings(r.rng, n - 1)
         IN [rings |-> <<r.gaps>> \o rest.rings, rng |-> rest.rng]

\* a scan face is rendered from start to end
create_qr_with_neon_rings_unseeded ==
    /\ Len(faces) < MaxRenders
    /\ LET r == draw_rings(rng, NumRings)
       IN /\ faces' = Append(faces, [before |-> rng, rings |-> r.rings,
                                     drawn |-> drawn_rings(r.rings)])
          /\ rng' = r.rng
    /\ UNCHANGED <<ring_pc, ring_i, ring_acc, other_uses>>
    /\ UNCHANGED <<pdfvars, colvars, fontvars, textvars, webvars,
                   extvars>>
create_qr_with_neon_rings ==
    /\ Len(faces) < MaxRenders
    /\ LET r == draw_rings(seed(42), NumRings)
       IN /\ faces' = Append(faces, [before |-> rng, rings |-> r.rings,
                                     drawn |-> drawn_rings(r.rings)])
          /\ rng' = r.rng
    /\ UNCHANGED <<ring_pc, ring_i, ring_acc, other_uses>>
    /\ UNCHANGED <<pdfvars, colvars, fontvars, textvars, webvars,
                   extvars>>

\* other code of the process draws a number from the shared generator
random_call ==
    /\ other_uses < MaxOtherUses
    /\ rng' = next_state(rng)
    /\ other_uses' = other_uses + 1
    /\ UNCHANGED <<ring_pc, ring_i, ring_acc, faces>>
    /\ UNCHANGED <<pdfvars, colvars, fontvars, textvars, webvars,
                   extvars>>

\* other code of the process seeds the shared generator
random_seed(a) ==
    /\ other_uses < MaxOtherUses
    /\ rng' = seed(a)
    /\ other_uses' = other_uses + 1
    /\ UNCHANGED <<ring_pc, ring_i, ring_acc, faces>>
    /\ UNCHANGED <<pdfvars, colvars, fontvars, textvars, webvars,
                   extvars>>

\* states the generator is in when the first face is rendered
StartStates == {1, 4711}
OtherSeeds == {0, 7}

RingInit ==
    /\ entry = "render"
    /\ PdfIdle
    /\ ExtIdle
    /\ ColorIdle
    /\ FontIdle
    /\ TextIdle
    /\ WebIdle
    /\ rng \in StartStates
    /\ ring_pc = [t \in Threads |-> "idle"]
    /\ ring_i = [t \in Threads |-> 0]
    /\ ring_acc = [t \in Threads |-> NoFace]
    /\ faces = <<>>
    /\ other_uses = 0

RingNext ==
    \/ create_qr_with_neon_rings
    \/ random_call
    \/ \E a \in OtherSeeds : random_seed(a)

SpecRing == RingInit /\ [][RingNext]_vars

\* the ring pattern of a scan face rendered alone
SoloPattern == draw_rings(seed(42), NumRings).rings

\* C14: the ring pattern is reproducible: any two renders of a scan face
\* give the same gap count, gap start and gap length for every ring,
\* whatever other renders and other uses of the random generator ran in
\* between, so every card of a deck carries the same pattern.
C14_RingPatternReproducible ==
    \A j \in 1..Len(faces) : \A k \in 1..Len(faces) :
        /\ Len(faces[j].rings) = NumRings
        /\ faces[j].rings = faces[k].rings

C14_Witness ==
    /\ Len(faces) >= 2
    /\ faces[1].before # faces[2].before
    /\ faces[2].before # draw_rings(seed(42), NumRings).rng
    /\ faces[1].rings = faces[2].rings

\* ------------------------------------------- scan faces rendered by threads
\* Two threads of the process (two sessions of the web front end, or a
\* parallel map over the records) are inside create_qr_with_neon_rings_in_
\* memory at the same time; a thread switch can fall between any two
\* rounds of the ring loop.

\* random.seed(42)  # Reproducible pattern
ring_seed(t) ==
    /\ ring_pc[t] = "seed"
    /\ rng' = seed(42)
    /\ ring_acc' = [ring_acc EXCEPT
                       ![t] = [before |-> rng, rings |-> <<>>,
                               drawn |-> <<>>]]
    /\ ring_pc' = [ring_pc EXCEPT ![t] = "rings"]
    /\ UNCHANGED <<ring_i, faces, other_uses>>
    /\ UNCHANGED <<pdfvars, colvars, fontvars, textvars, webvars,
                   extvars>>

\* one round of: for i, color in enumerate(db['neon_colors'] * 2)
ring_draw(t) ==
    /\ ring_pc[t] = "rings"
    /\ ring_i[t] < NumRings
    /\ LET r == draw_ring(rng)
       IN /\ ring_acc' = [ring_acc EXCEPT
                             ![t].rings = Append(@, r.gaps),
                             ![t].drawn =
                                Append(@, ring_drawn(ring_i[t], r.gaps))]
          /\ rng' = r.rng
    /\ ring_i' = [ring_i EXCEPT ![t] = @ + 1]
    /\ UNCHANGED <<ring_pc, faces, other_uses>>
    /\ UNCHANGED <<pdfvars, colvars, fontvars, textvars, webvars,
                   extvars>>

\* the loop is left and the face is returned
ring_return(t) ==
    /\ ring_pc[t] = "rings"
    /\ ring_i[t] = NumRings
    /\ faces' = Append(faces, ring_acc[t])
    /\ ring_pc' = [ring_pc EXCEPT ![t] = "done"]
    /\ UNCHANGED <<rng, ring_i, ring_acc, other_uses>>
    /\ UNCHANGED <<pdfvars, colvars, fontvars, textvars, webvars,
                   extvars>>

ConcInit ==
    /\ entry = "render"
    /\ PdfIdle
    /\ ExtIdle
    /\ ColorIdle
    /\ FontIdle
    /\ TextIdle
    /\ WebIdle
    /\ rng \in StartStates
    /\ ring_pc = [t \in Threads |-> "seed"]
    /\ ring_i = [t \in Threads |-> 0]
    /\ ring_acc = [t \in Threads |-> NoFace]
    /\ faces = <<>>
    /\ other_uses = 0

ConcNext ==
    \E t \in Threads :
        \/ ring_seed(t)
        \/ ring_draw(t)
        \/ ring_return(t)

SpecConc == ConcInit /\ [][ConcNext]_vars

\* C20: face rendering is independent per card: scan faces rendered by
\* threads whose steps interleave in any order come out as they do when
\* rendered one after another, each with the ring pattern of a solo
\* render, and no render changes state that another render reads.
C20_ConcurrentRendersIndependent ==
    \A k \in 1..Len(faces) : faces[k].rings = SoloPattern

\* C16: face files are named card_{index:03d}_qr and card_{index:03d}_
\* solution with a 1-based index, and the folder re-read in the order of
\* the embedded number holds, at every position i, the scan face and the
\* reveal face of the i-th record of the deck just rendered.
C16_ListingIsLatestDeck ==
    (entry \in {"cli", "legacy"} /\ pc \in {"front", "back", "save", "done"})
        => /\ Len(qr_images) = Len(solution_images)
           /\ \A i \in 1..Len(qr_images) :
                /\ qr_images[i].digits = Format03d(i)
                /\ solution_images[i].digits = Format03d(i)
                /\ FaceOf(qr_images[i])
                     = [side |-> "qr", run |-> run, rec |-> i - 1]
                /\ FaceOf(solution_images[i])
                     = [side |-> "solution", run |-> run, rec |-> i - 1]
                /\ i <= songs

\* ------------------------------------------------------- web front end
\* src/streamlit_app.py, "Create My PDF": the pasted track links are
\* scraped by fetch_no_api_data_from_list, the years are checked for the
\* warning, and create_pdf_in_memory renders the faces.

\* what a year lookup returns: None ({}) or a year ({y})
Lookups == {{}} \cup {{y} : y \in Years}

\* get_year_and_source(title, artist, orig_year)
get_year_and_source_late(itunes_year, musicbrainz_year, orig_year) ==
    IF itunes_year # {}
    THEN [year |-> CHOOSE y \in itunes_year : TRUE, source |-> "iTunes"]
    ELSE IF musicbrainz_year # {}
    THEN [year |-> CHOOSE y \in musicbrainz_year : TRUE,
          source |-> "MusicBrainz"]
    ELSE [year |-> orig_year + 10000, source |-> "Spotify"]
get_year_and_source(itunes_year, musicbrainz_year, orig_year) ==
    IF itunes_year # {}
    THEN [year |-> CHOOSE y \in itunes_year : TRUE, source |-> "iTunes"]
    ELSE IF musicbrainz_year # {}
    THEN [year |-> CHOOSE y \in musicbrainz_year : TRUE,
          source |-> "MusicBrainz"]
    ELSE [year |-> orig_year, source |-> "Spotify"]

\* one round of the loop of fetch_no_api_data_from_list.  page_ok: the
\* page was fetched and carries both OpenGraph tags; otherwise the except
\* clause prints the error and the record is skipped.  The progress call
\* comes after songs.append inside the same try block.
fetch_one(page_ok, itunes_year, musicbrainz_year) ==
    /\ web_pc = "scrape"
    /\ fetch_i <= total
    /\ IF page_ok
       THEN /\ scraped' = Append(scraped,
                  get_year_and_source(itunes_year, musicbrainz_year,
                                      -1000).year)
            /\ progress' = Append(progress, <<fetch_i + 1, total>>)
       ELSE UNCHANGED <<scraped, progress>>
    /\ fetch_i' = fetch_i + 1
    /\ web_pc' = IF fetch_i = total THEN "warn" ELSE "scrape"
    /\ UNCHANGED <<total, warning>>
    /\ UNCHANGED <<pdfvars, colvars, fontvars, textvars, rngvars,
                   extvars>>

\* years = [song['year'] for song in songs]; if -1 in years: st.warning
check_years ==
    /\ web_pc = "warn"
    /\ warning' = (\E k \in 1..Len(scraped) : scraped[k] = -1)
    /\ web_pc' = "pdf"
    /\ UNCHANGED <<total, fetch_i, scraped, progress>>
    /\ UNCHANGED <<pdfvars, colvars, fontvars, textvars, rngvars,
                   extvars>>

\* create_pdf_in_memory(songs): None for no songs, else the year
\* population is taken from the songs before any face is rendered
web_create_pdf ==
    /\ web_pc = "pdf"
    /\ all_years' = scraped
    /\ card' = 0
    /\ colors' = <<>>
    /\ web_pc' = IF scraped = <<>> THEN "done" ELSE "render"
    /\ UNCHANGED gradient
    /\ UNCHANGED <<total, fetch_i, scraped, progress, warning>>
    /\ UNCHANGED <<pdfvars, fontvars, textvars, rngvars,
                   extvars>>

\* the reveal face of the next song: create_solution_side_in_memory
web_solution_side ==
    /\ web_pc = "render"
    /\ create_solution_side

\* the document is returned and offered for download
web_download ==
    /\ web_pc = "render"
    /\ card = Len(all_years)
    /\ web_pc' = "done"
    /\ UNCHANGED <<total, fetch_i, scraped, progress, warning>>
    /\ UNCHANGED <<pdfvars, colvars, fontvars, textvars, rngvars,
                   extvars>>

WebInit ==
    /\ entry = "streamlit"
    /\ PdfIdle
    /\ ExtIdle
    /\ FontIdle
    /\ TextIdle
    /\ RingIdle
    /\ all_years = <<>>
    /\ gradient = COLOR_GRADIENT
    /\ card = 0
    /\ colors = <<>>
    /\ total \in 1..MaxUrls
    /\ fetch_i = 1
    /\ scraped = <<>>
    /\ progress = <<>>
    /\ warning = FALSE
    /\ web_pc = "scrape"

WebNext ==
    \/ \E page_ok \in BOOLEAN, itunes_year \in Lookups,
          musicbrainz_year \in Lookups :
            fetch_one(page_ok, itunes_year, musicbrainz_year)
    \/ check_years
    \/ web_create_pdf
    \/ web_solution_side
    \/ web_download

SpecWeb == WebInit /\ [][WebNext]_vars

\* the year the scraper gives a record whose year no lookup resolved
Sentinel == get_year_and_source({}, {}, -1000).year

Unresolved(k) == all_years[k] = Sentinel

\* C17: a record whose year could not be resolved carries the sentinel
\* year; its reveal face is rendered without error (both ramp indices are
\* inside the ramp) and its ramp position is at most the position of every
\* card of the deck that has a real year.
C17_SentinelSortsOldest ==
    \A k \in 1..Len(colors) :
        Unresolved(k) =>
            /\ colors[k].year = Sentinel
            /\ colors[k].idx_low \in 0..(Len(gradient) - 1)
            /\ colors[k].idx_high \in 0..(Len(gradient) - 1)
            /\ \A j \in 1..Len(colors) :
                  ~ Unresolved(j)
                    => colors[k].inum * colors[j].den
                         <= colors[j].inum * colors[k].den

C17_Witness ==
    /\ web_pc = "done"
    /\ Len(colors) >= 3
    /\ \E k \in 1..Len(colors) : Unresolved(k)
    /\ \E j \in 1..Len(colors) : \E h \in 1..Len(colors) :
          /\ ~ Unresolved(j)
          /\ ~ Unresolved(h)
          /\ all_years[j] # all_years[h]

\* C18: whenever a scraped record ends up with the sentinel the scraper
\* assigns to an unresolved year, the front end shows the unresolved-year
\* warning before it generates the PDF.
C18_UnresolvedYearWarned ==
    (web_pc \in {"pdf", "render", "done"}
        /\ \E k \in 1..Len(scraped) : scraped[k] = Sentinel)
      => warning

\* C19: the percentile p is mapped to the ramp position idx = p * (len(ramp)
\* - 1); an integral idx gives exactly the anchor ramp[idx], any other idx
\* gives, channel by channel, low + (high - low) * frac(idx) between the
\* anchors at floor(idx) and ceil(idx), so every channel lies between the
\* channels of the two bracketing anchors; for every ramp of 2 or more
\* anchors.
C19_InterpolatesBetweenAnchors ==
    \A k \in Rendered :
        LET c == colors[k]
            lo == gradient[c.idx_low + 1]
            hi == gradient[c.idx_high + 1]
            frac == c.inum - c.idx_low * c.den
        IN /\ c.den = 2 * PopSize
           /\ c.inum = c.pnum * (Len(gradient) - 1)
           /\ c.idx_low * c.den <= c.inum
           /\ c.inum < (c.idx_low + 1) * c.den
           /\ (c.idx_high - 1) * c.den < c.inum
           /\ c.inum <= c.idx_high * c.den
           /\ c.inum % c.den = 0
                => c.rgb = Anchor(c.inum \div c.den + 1, c.den)
           /\ \A ch \in 1..3 :
                /\ c.rgb[ch] = lo[ch] * c.den + (hi[ch] - lo[ch]) * frac
                /\ c.rgb[ch] >= Min(lo[ch], hi[ch]) * c.den
                /\ c.rgb[ch] <= Max(lo[ch], hi[ch]) * c.den

\* 1990 in the deck {1990, 2000, 2020} on the 3-colour ramp: idx = 1/3,
\* a third of the way from purple to pink
C19_Witness ==
    /\ all_years = <<1990, 2000, 2020>>
    /\ Len(gradient) = 3
    /\ card >= 1
    /\ colors[1].inum = 2
    /\ colors[1].den = 6
    /\ colors[1].idx_low = 0
    /\ colors[1].idx_high = 1
    /\ colors[1].rgb = <<112 * 6 + 115 * 2, 48 * 6 - 20 * 2, 160 * 6 - 39 * 2>>

\* ------------------------------------------------------- code overlay
\* create_qr_with_neon_rings_in_memory from "Overlay QR code" on: the
\* resized code image is thresholded, the smaller pixel class becomes the
\* module mask, and the mask is pasted in a colour that contrasts with the
\* card under it.  The region is a row of pixels; the code image has one
\* luminance per pixel, the card one RGB colour per pixel.
black == <<0, 0, 0>>
white == <<255, 255, 255>>

\* Image.convert('L'): ITU-R 601-2 luma, in 16 bit fixed point
Luminance(rgb) ==
    (rgb[1] * 19595 + rgb[2] * 38470 + rgb[3] * 7471 + 32768) \div 65536

RECURSIVE SumLuminance(_)
SumLuminance(region) ==
    IF region = <<>> THEN 0
    ELSE Luminance(region[1]) + SumLuminance(Tail(region))

\* dark_mask = arr < 128
dark_mask(arr) == {p \in 1..Len(arr) : arr[p] < 128}

\* modules_mask: dark_mask if num_dark < total / 2, else ~dark_mask
modules_mask_dark(arr) == dark_mask(arr)
modules_mask(arr) ==
    IF 2 * Cardinality(dark_mask(arr)) < Len(arr)
    THEN dark_mask(arr)
    ELSE (1..Len(arr)) \ dark_mask(arr)

\* module_color = (0, 0, 0) if bg_mean > 127 else (255, 255, 255)
module_color_swapped(bg_crop) ==
    IF SumLuminance(bg_crop) > 127 * Len(bg_crop) THEN white ELSE black
module_color(bg_crop) ==
    IF SumLuminance(bg_crop) > 127 * Len(bg_crop) THEN black ELSE white

\* img.paste(overlay, (left, top), mask_img)
paste(region, colour, mask) ==
    [p \in 1..Len(region) |-> IF p \in mask THEN colour ELSE region[p]]

\* the polarity-inverted code image: ImageOps.invert
invert(arr) == [p \in 1..Len(arr) |-> 255 - arr[p]]

\* the overlay part of the render, for the code image as given or inverted
overlay_qr(polarity) ==
    /\ overlay[polarity] = NotPasted
    /\ LET arr == IF polarity = "given" THEN code_img ELSE invert(code_img)
           mask == modules_mask(arr)
           colour == module_color(under)
       IN overlay' = [overlay EXCEPT ![polarity] =
                         [mask |-> mask, module_color |-> colour,
                          region |-> paste(under, colour, mask)]]
    /\ UNCHANGED <<code_img, background_color, under>>
    /\ UNCHANGED <<pdfvars, colvars, fontvars, textvars, rngvars, webvars,
                   revealvars, srcvars>>

\* luminances of the resized code image on both sides of the threshold
Lums == {0, 127, 128, 255}

\* the card under the code: the background colour, and at the corners of
\* the region a piece of the innermost ring (radius 600 against a half
\* diagonal of 636), less than a tenth of the region; here the last pixel
\* of a region of four or more
UnderRegions(n, bg) ==
    {[p \in 1..n |-> bg]}
        \cup {[p \in 1..n |-> IF p = n THEN neon_colors[c] ELSE bg] :
                c \in IF n >= 4 THEN 1..Len(neon_colors) ELSE {}}

ScanInit ==
    /\ entry = "render"
    /\ PdfIdle
    /\ ColorIdle
    /\ FontIdle
    /\ TextIdle
    /\ RingIdle
    /\ WebIdle
    /\ RevealIdle
    /\ SourceIdle
    /\ \E n \in 1..NumPixels :
          /\ code_img \in [1..n -> Lums]
          /\ background_color \in {black, white}
          /\ under \in UnderRegions(n, background_color)
    /\ overlay = [p \in {"given", "inverted"} |-> NotPasted]

ScanNext == \E polarity \in {"given", "inverted"} : overlay_qr(polarity)

SpecScan == ScanInit /\ [][ScanNext]_vars

Pasted(polarity) == overlay[polarity] # NotPasted

C22_ContrastingModules ==
    \A polarity \in {"given", "inverted"} :
        Pasted(polarity) =>
            LET o == overlay[polarity]
            IN /\ o.module_color
                    = IF SumLuminance(under) > 127 * Len(under)
                      THEN black ELSE white
               /\ background_color = black => o.module_color = white
               /\ background_color = white => o.module_color = black
               /\ \A p \in 1..Len(under) :
                     o.region[p] = IF p \in o.mask THEN o.module_color
                                   ELSE under[p]

C22_Witness ==
    /\ Pasted("given")
    /\ background_color = white
    /\ Len(under) = 4
    /\ under[4] = neon_colors[1]
    /\ overlay["given"].mask = {1, 2}
    /\ overlay["given"].region = <<black, black, white, neon_colors[1]>>

\* C23: rings are drawn at the radii max_radius - 50 * i, i = 0 .. 2 *
\* |palette| - 1, cycling through the palette twice, and in the finished
\* scan face every ring carries all of the gaps generated for it: 1 to 3
\* gaps of 20 to 60 degrees in the background colour, none of them
\* repainted by a later drawing step of the same ring.
C23_RingsKeepTheirGaps ==
    \A k \in 1..Len(faces) :
        /\ Len(faces[k].drawn) = 2 * Len(neon_colors)
        /\ \A i \in 1..Len(faces[k].drawn) :
              LET ring == faces[k].drawn[i]
                  gaps == faces[k].rings[i]
              IN /\ ring.radius = 950 - 50 * (i - 1)
                 /\ ring.radius > 0
                 /\ ring.color = neon_colors[((i - 1) % Len(neon_colors)) + 1]
                 /\ Len(gaps) \in 1..3
                 /\ \A g \in 1..Len(gaps) :
                       /\ gaps[g].gap_length \in 20..60
                       /\ Sector(gaps[g]) \subseteq ring.cut

\* what a page shows behind its cards: a page without a fill shows the
\* white paper
Shows(fill) == IF fill = "none" THEN "white" ELSE fill

\* C24: every scan page is filled black before its cards are drawn when
\* ink-saving mode is off and white when it is on, and every reveal page
\* is filled white in both modes, on every page of the document and for
\* both pagination entry points.
C24_PageFills ==
    entry \in {"cli", "web"} =>
        /\ \A j \in ScanPages :
              Shows(pages[j].fill)
                = IF ink_saving_mode THEN "white" ELSE "black"
        /\ \A j \in RevealPages : Shows(pages[j].fill) = "white"

Pitch == card_size + gap_size

Abs(a) == IF a < 0 THEN -a ELSE a

\* C25: cells lie at a pitch of card_size + gap in both directions, the
\* left and right margins are equal and the top and bottom margins are
\* equal, no margin is negative and no two cells of a page overlap, for
\* both pagination entry points.
C25_CentredGrid ==
    entry \in {"cli", "web"} =>
        \A j \in 1..Len(pages) :
            \A a \in 1..Len(pages[j].cells) :
                LET c == pages[j].cells[a]
                    left == c.x - c.col * Pitch
                    right == A4_width
                               - (c.x + (cols - 1 - c.col) * Pitch + card_size)
                    top == A4_height - (c.y + c.row * Pitch + card_size)
                    bottom == c.y - (rows - 1 - c.row) * Pitch
                IN /\ left = right
                   /\ top = bottom
                   /\ left >= 0
                   /\ bottom >= 0
                   /\ \A b \in 1..Len(pages[j].cells) :
                         LET d == pages[j].cells[b]
                         IN a # b => \/ Abs(c.x - d.x) >= card_size
                                     \/ Abs(c.y - d.y) >= card_size

\* C27: after any sequence of generate_hitster_cards runs into the same
\* output directory with decks of differing sizes, the PDF of the latest
\* run holds exactly the cards of the latest deck: as many cards as the
\* latest run has records, and no face file written by an earlier run.
C27_PdfIsLatestDeck ==
    (entry = "cli" /\ pc = "done" /\ result = "pdf")
        => /\ Cardinality(UNION {CardsOn(pages[j]) : j \in ScanPages}) = songs
           /\ \A j \in 1..Len(pages) :
                 \A q \in 1..Len(pages[j].cells) :
                     pages[j].cells[q].face.run = run

\* -------------------------------------- get_year_color with any integer year
\* years a caller may ask about: the record years and years below,
\* between and above them
ProbeYears == {1985 + 5 * k : k \in 0..(2 * NumYears)}

\* a call of get_year_color with a year that need not be in all_years
get_year_color_call(year) ==
    /\ colors' = <<get_year_color(year, all_years, gradient)>>
    /\ UNCHANGED <<all_years, gradient, card>>
    /\ UNCHANGED pdfvars
    /\ UNCHANGED auxvars

ProbeNext == \E year \in ProbeYears : get_year_color_call(year)

SpecProbe == ColorInit /\ [][ProbeNext]_vars

\* C28: for every non-empty population and every integer year, in the
\* population or not, the percentile lies in [0,1] and the ramp indices
\* floor(idx) and ceil(idx) lie in 0..len(ramp)-1.
C28_IndicesInRange ==
    \A k \in 1..Len(colors) :
        /\ colors[k].pnum \in 0..colors[k].den
        /\ colors[k].idx_low \in 0..(Len(gradient) - 1)
        /\ colors[k].idx_high \in 0..(Len(gradient) - 1)

\* a year above every year of the population was asked about: the
\* percentile is 1 and both indices are the last anchor
C28_Witness ==
    /\ Len(colors) = 1
    /\ \A j \in 1..Len(all_years) : all_years[j] < colors[1].year
    /\ colors[1].pnum = colors[1].den
    /\ colors[1].idx_low = Len(gradient) - 1
    /\ colors[1].idx_high = Len(gradient) - 1

\* C29: every fraction passed to the progress bar lies in [0,1] for
\* every list length, and a record whose scrape succeeded is kept in the
\* returned list: each progress call of the scrape has its record in
\* the list.
C29_ProgressInUnitInterval ==
    /\ \A k \in 1..Len(progress) :
          /\ 0 <= progress[k][1]
          /\ progress[k][1] <= progress[k][2]
    /\ Len(scraped) = Len(progress)

\* ------------------------- create_solution_side_in_memory (src/src/utils.py)
\* The reveal face: the canvas, the border of ink-saving mode, and the
\* draw calls of the year, the artist, the title and the optional label.
border_width == 100

\* tuple(int(c * 255) for c in color_rgb), channels in 0..255
color_int(color_rgb) == [ch \in 1..3 |-> color_rgb.rgb[ch] \div color_rgb.den]

\* mutant: the modes are exchanged
reveal_background_swapped(ink, flat, year_color) ==
    IF ink THEN year_color ELSE flat
\* db['card_background_color'] if ink_saving_mode else color_int
reveal_background(ink, flat, year_color) ==
    IF ink THEN flat ELSE year_color

\* no draw.rectangle call
NoBorder == [outline |-> <<>>, width |-> 0]

\* if card_label: the label is not None and not the empty string
Truthy(label) == label.set /\ label.text # ""

\* the labels a user may configure: none, the empty string, a name
Labels == {NoLabel, [set |-> TRUE, text |-> ""],
           [set |-> TRUE, text |-> "Deck A"]}

\* the reveal face of the next record of the deck
create_solution_side_in_memory ==
    /\ card < Len(all_years)
    /\ LET color_rgb == get_year_color(all_years[card + 1], all_years,
                                       gradient)
           year_color == color_int(color_rgb)
           texts == << [what |-> "year", fill |-> black],
                       [what |-> "artist", fill |-> black],
                       [what |-> "song", fill |-> black] >>
       IN /\ reveals' = Append(reveals,
                [canvas |-> reveal_background(ink_saving_mode,
                                background_color, year_color),
                 border |-> IF ink_saving_mode
                            THEN [outline |-> year_color,
                                  width |-> border_width]
                            ELSE NoBorder,
                 texts |-> IF Truthy(card_label)
                           THEN Append(texts,
                                    [what |-> "label", fill |-> black])
                           ELSE texts,
                 label |-> IF Truthy(card_label) THEN card_label.text
                           ELSE ""])
          /\ colors' = Append(colors, color_rgb)
    /\ card' = card + 1
    /\ UNCHANGED <<all_years, gradient, card_label>>
    /\ UNCHANGED <<pdfvars, fontvars, textvars, rngvars, webvars, scanvars,
                   srcvars>>

\* db as the command line and the web front end set it: the flat
\* background is white in ink-saving mode and black otherwise
RevealInit ==
    /\ entry = "render"
    /\ pc = "idle"
    /\ ink_saving_mode \in BOOLEAN
    /\ run = 0
    /\ songs = 0
    /\ folder = {}
    /\ qr_images = <<>>
    /\ solution_images = <<>>
    /\ page_idx = 0
    /\ pages = <<>>
    /\ result = "none"
    /\ all_years \in Populations
    /\ gradient = COLOR_GRADIENT
    /\ card = 0
    /\ colors = <<>>
    /\ FontIdle
    /\ TextIdle
    /\ RingIdle
    /\ WebIdle
    /\ code_img = <<>>
    /\ background_color = (IF ink_saving_mode THEN white ELSE black)
    /\ under = <<>>
    /\ overlay = [p \in {"given", "inverted"} |-> NotPasted]
    /\ card_label \in Labels
    /\ reveals = <<>>
    /\ SourceIdle

RevealNext == create_solution_side_in_memory

SpecReveal == RevealInit /\ [][RevealNext]_vars

\* the draw calls of a face that draw the given item
Draws(face, what) == {q \in 1..Len(face.texts) : face.texts[q].what = what}

\* C26: in ink-saving mode the reveal canvas is the configured flat
\* background colour with a 100 px rectangular border in the card's year
\* colour, otherwise the canvas is the year colour and no border is drawn;
\* in both modes year, artist, title and label are drawn in black, and the
\* label is drawn exactly when a label string is configured.
C26_RevealBackground ==
    \A k \in 1..Len(reveals) :
        LET face == reveals[k]
            year_color == color_int(colors[k])
        IN /\ ink_saving_mode
                => /\ face.canvas = background_color
                   /\ face.border = [outline |-> year_color, width |-> 100]
           /\ ~ink_saving_mode
                => /\ face.canvas = year_color
                   /\ face.border = NoBorder
           /\ \A q \in 1..Len(face.texts) : face.texts[q].fill = black
           /\ \A what \in {"year", "artist", "song"} :
                 Cardinality(Draws(face, what)) = 1
           /\ Draws(face, "label") # {} => card_label.set
           /\ face.label = (IF card_label.set THEN card_label.text ELSE "")

\* a face of ink-saving mode with the label on it: the canvas is white
\* and differs from the colour of the border
C26_Witness ==
    /\ ink_saving_mode
    /\ card_label.text = "Deck A"
    /\ Len(reveals) >= 1
    /\ reveals[1].canvas = white
    /\ reveals[1].border.width = 100
    /\ reveals[1].border.outline # white
    /\ Draws(reveals[1], "label") # {}

\* ------------------ generate_hitster_cards, Step 1: the source of the records
\* src/src/hitster_card_creator.py and the older src/hitster_card_creator.py:
\* the if/elif chain that loads songs.json, scrapes the links file or
\* calls the playlist API, and the steps that follow it.
Credentials == {"playlist_url", "client_id", "client_secret"}

\* mutant: the links file is looked at before the cached songs.json
record_source_links_first(forced, json_exists, links_exists, given) ==
    IF links_exists THEN "links"
    ELSE IF ~forced /\ json_exists THEN "json"
    ELSE IF given = Credentials THEN "api"
    ELSE "error"
\* the branch the if/elif chain takes
record_source(forced, json_exists, links_exists, given) ==
    IF ~forced /\ json_exists THEN "json"
    ELSE IF links_exists THEN "links"
    ELSE IF given = Credentials THEN "api"
    ELSE "error"

\* the older program has no fetch parameter
Forced == entry = "cli" /\ fetch

\* __main__: with --fetch an existing songs.json is removed, then
\* generate_hitster_cards is called
main ==
    /\ src_pc = "main"
    /\ json_file' = IF Forced THEN "absent" ELSE json_file
    /\ src_pc' = "fetch"
    /\ UNCHANGED <<fetch, links_file, credentials, cached, source, src_log,
                   src_run>>
    /\ UNCHANGED <<pdfvars, colvars, fontvars, textvars, rngvars, webvars,
                   scanvars, revealvars>>

\* Step 1: the records are loaded or fetched; fetched records are dumped
\* to songs.json; without a source the error is printed and the function
\* returns
fetch_data ==
    /\ src_pc = "fetch"
    /\ LET chosen == record_source(Forced, json_file # "absent", links_file,
                                   credentials)
       IN /\ source' = chosen
          /\ json_file' = IF chosen \in {"links", "api"} THEN chosen
                          ELSE json_file
          /\ src_log' = src_log \o
                (IF chosen = "json" THEN <<"json.load">>
                 ELSE IF chosen = "links"
                      THEN <<"fetch_no_api_data", "json.dump">>
                 ELSE IF chosen = "api"
                      THEN <<"fetch_spotify_playlist", "json.dump">>
                 ELSE <<"ERROR">>)
          /\ src_pc' = IF chosen = "error" THEN "done" ELSE "cards"
    /\ UNCHANGED <<fetch, links_file, credentials, cached, src_run>>
    /\ UNCHANGED <<pdfvars, colvars, fontvars, textvars, rngvars, webvars,
                   scanvars, revealvars>>

\* Step 2: the faces of every record are rendered
generate_cards ==
    /\ src_pc = "cards"
    /\ src_log' = Append(src_log, "render")
    /\ src_pc' = "pdf"
    /\ UNCHANGED <<fetch, json_file, links_file, credentials, cached, source,
                   src_run>>
    /\ UNCHANGED <<pdfvars, colvars, fontvars, textvars, rngvars, webvars,
                   scanvars, revealvars>>

\* Step 3: create_cards_pdf
create_pdf ==
    /\ src_pc = "pdf"
    /\ src_log' = Append(src_log, "create_cards_pdf")
    /\ src_pc' = "done"
    /\ UNCHANGED <<fetch, json_file, links_file, credentials, cached, source,
                   src_run>>
    /\ UNCHANGED <<pdfvars, colvars, fontvars, textvars, rngvars, webvars,
                   scanvars, revealvars>>

\* the program is started again, with the flag, the links file and the
\* credentials of that start; songs.json is what the earlier runs left
start_again(forced, links_exists, given) ==
    /\ src_pc = "done"
    /\ src_run < MaxRuns
    /\ entry = "legacy" => ~forced
    /\ fetch' = forced
    /\ links_file' = links_exists
    /\ credentials' = given
    /\ cached' = (json_file # "absent")
    /\ source' = "none"
    /\ src_log' = <<>>
    /\ src_pc' = "main"
    /\ src_run' = src_run + 1
    /\ UNCHANGED json_file
    /\ UNCHANGED <<pdfvars, colvars, fontvars, textvars, rngvars, webvars,
                   scanvars, revealvars>>

SourceInit ==
    /\ entry \in {"cli", "legacy"}
    /\ PdfIdle
    /\ ColorIdle
    /\ FontIdle
    /\ TextIdle
    /\ RingIdle
    /\ WebIdle
    /\ ScanIdle
    /\ RevealIdle
    /\ fetch \in (IF entry = "legacy" THEN {FALSE} ELSE BOOLEAN)
    /\ json_file \in {"absent", "earlier"}
    /\ links_file \in BOOLEAN
    /\ credentials \in SUBSET Credentials
    /\ cached = (json_file # "absent")
    /\ source = "none"
    /\ src_log = <<>>
    /\ src_pc = "main"
    /\ src_run = 1

SourceNext ==
    \/ main
    \/ fetch_data
    \/ generate_cards
    \/ create_pdf
    \/ \E forced \in BOOLEAN, links_exists \in BOOLEAN,
          given \in SUBSET Credentials :
            start_again(forced, links_exists, given)

SpecSource == SourceInit /\ [][SourceNext]_vars

\* positions of an entry in the log of the run
Logged(what) == {q \in 1..Len(src_log) : src_log[q] = what}

\* C30: the record source is the cached songs.json when fetch is not
\* forced and the file is there, else the links file, else the playlist
\* API when URL, client id and secret are all given, else an error with no
\* card rendered and no PDF made; with fetch forced the cached songs.json
\* is never the source, and freshly fetched records are written to
\* songs.json before any card is rendered.
C30_SourcePriority ==
    source # "none" =>
        /\ (~Forced /\ cached) => source = "json"
        /\ (~(~Forced /\ cached) /\ links_file) => source = "links"
        /\ (~(~Forced /\ cached) /\ ~links_file /\ credentials = Credentials)
              => source = "api"
        /\ (~(~Forced /\ cached) /\ ~links_file /\ credentials # Credentials)
              => /\ source = "error"
                 /\ Logged("ERROR") # {}
                 /\ Logged("render") = {}
                 /\ Logged("create_cards_pdf") = {}
                 /\ src_pc = "done"
        /\ Forced => source # "json"
        /\ source \in {"links", "api"}
              => /\ json_file = source
                 /\ Logged("json.dump") # {}
                 /\ \A r \in Logged("render") :
                       \E d \in Logged("json.dump") : d < r

\* a forced fetch with a cached songs.json, the links file and no
\* credentials: the links were scraped, dumped and then rendered
C30_Witness ==
    /\ Forced
    /\ cached
    /\ links_file
    /\ credentials = {}
    /\ source = "links"
    /\ json_file = "links"
    /\ Logged("render") # {}

====
